---- MODULE Spec2Model ----
(***************************************************************************)
(* Model of src/app.py, a Streamlit script.  Every interaction with one of *)
(* the sidebar widgets (and an explicit rerun) executes the whole script   *)
(* from the top in a fresh namespace: load the data set, read the four     *)
(* widgets, select filtered_df and peer_df, show the company snapshot, fit *)
(* an IsolationForest on the peer cohort, score cohort and target,         *)
(* normalize, round and classify.                                          *)
(*                                                                         *)
(* Numbers.  Scores and thresholds are kept in thousandths (0.5 is 500).   *)
(* The slider yields the 21 values k * 0.05 and the rounded score is a     *)
(* multiple of 0.001; for these values the IEEE-754 comparisons of lines   *)
(* 161 and 164 (score >= threshold, score >= threshold * 0.7) agree with   *)
(* the exact comparisons on thousandths, which is what RiskState uses.     *)
(* The slider is taken to return the float nearest to each k * 0.05.       *)
(* A float that is nan, inf or -inf is kept as such (kind field).          *)
(*                                                                         *)
(* IsolationForest is a library.  Its fitted decision function is modelled *)
(* as an arbitrary but fixed function: the variable forest is chosen once  *)
(* (any table of native decision values), and the model fitted on a        *)
(* feature matrix X with a seed reads that table at an offset that depends *)
(* on X, the seed and the configuration.  So a fit is a deterministic      *)
(* function of (X, configuration), two fits on different matrices or with  *)
(* different seeds may score the same row differently, and one fitted      *)
(* model gives equal rows equal scores.                                    *)
(***************************************************************************)
EXTENDS Integers, Sequences, FiniteSets

VARIABLES
    df,              \* the data set read at line 69 (a sequence of rows)
    forest,          \* the library's decision values (fixed, see above)
    industry,        \* sidebar selectbox, line 76
    company,         \* sidebar selectbox, line 81
    year,            \* sidebar selectbox, line 86
    risk_threshold,  \* sidebar slider, line 91 (thousandths)
    filtered_df,     \* line 99
    peer_df,         \* line 105
    model,           \* line 145, fitted at line 151
    peer_scores,     \* line 153
    company_score,   \* line 154
    ai_score,        \* lines 156-157
    risk_state,      \* lines 161-169
    banner,          \* st.error / st.warning / st.success of lines 163-169
    status,          \* how the last execution of the script ended
    previous         \* history: "same" when the run before this one scored the
                     \* same cohort, target and threshold, "changed" when it
                     \* scored another one, "none" when there was none

vars == <<df, forest, industry, company, year, risk_threshold,
          filtered_df, peer_df, model, peer_scores, company_score, ai_score,
          risk_state, banner, status, previous>>

(***************************************************************************)
(* Bounds of the model.                                                    *)
(***************************************************************************)
NumCompanies == 4
MaxStep == 2

(***************************************************************************)
(* Constants of the program.                                               *)
(***************************************************************************)
N_ESTIMATORS == 200
CONTAMINATION == 150
SLIDER_MIN == 0
SLIDER_MAX == 1000
SLIDER_STEP == 50
SLIDER_VALUE == 500
ROUND_DIGITS == 3

\* round(., 3) keeps thousandths, the unit of scores and thresholds here
Scale == 10 ^ ROUND_DIGITS

Companies == 1..NumCompanies
YearsAll == {2023, 2024}
\* the industries, named by their place in sorted order
IndustryNames == <<"IT", "Pharma">>
Industries == 1..Len(IndustryNames)

\* the four rpt_features of a row, in hundredths
Outlier == <<30, 20, 10, 40>>
PeerA == <<10, 10, 5, 10>>
PeerB == <<11, 9, 5, 10>>
FeatureVectors == <<Outlier, PeerA, PeerB>>
NumFV == Len(FeatureVectors)

Code(x) == CHOOSE k \in 1..NumFV : FeatureVectors[k] = x

\* native decision values of the library (higher = more normal)
NativeScores == {-3000, -2999, -1201, 0}

\* every slider position
SliderStops == {SLIDER_MIN + k * SLIDER_STEP : k \in 0..((SLIDER_MAX - SLIDER_MIN) \div SLIDER_STEP)}

\* the slider positions a session moves between
SessionStops == {0, 250, 500, 750, 1000}

(***************************************************************************)
(* The data set.  A row is one company-year with its industry and its four *)
(* RPT ratios.  The last company is the only Pharma company, the others    *)
(* are IT.  A data set holds the first n companies in 2023 and the last m  *)
(* companies in 2024.  In 2023 the ratios differ from company to company   *)
(* within an industry, in 2024 all companies report the same ratios.       *)
(***************************************************************************)
IndustryOf(c) == IF c = NumCompanies THEN Len(IndustryNames) ELSE 1

FeatureOf(c, y) ==
    IF y = 2023 THEN FeatureVectors[((c - 1) % NumFV) + 1] ELSE PeerA

Row(c, y) ==
    [Industry |-> IndustryOf(c), Company |-> c, Year |-> y,
     Features |-> FeatureOf(c, y)]

RECURSIVE RowsOf(_, _, _)
\* rows of year y for the companies from..to, in company order
RowsOf(y, from, to) ==
    IF from > to THEN <<>>
    ELSE <<Row(from, y)>> \o RowsOf(y, from + 1, to)

Datasets ==
    { RowsOf(2023, 1, nm[1]) \o RowsOf(2024, NumCompanies - nm[2] + 1, NumCompanies) :
        nm \in ((0..NumCompanies) \X (0..NumCompanies)) \ {<<0, 0>>} }

(***************************************************************************)
(* The selections (lines 76-108)                                           *)
(***************************************************************************)
SetMin(S) == CHOOSE x \in S : \A z \in S : x <= z
SetMax(S) == CHOOSE x \in S : \A z \in S : x >= z

\* the options of the three selectboxes (lines 78, 83, 88)
IndustryOptions(d) == {d[k].Industry : k \in 1..Len(d)}
CompanyOptions(d, i) == {d[k].Company : k \in {j \in 1..Len(d) : d[j].Industry = i}}
YearOptions(d) == {d[k].Year : k \in 1..Len(d)}

\* lines 99-103
FilteredDf(d, i, c, y) ==
    SelectSeq(d, LAMBDA r : r.Industry = i /\ r.Company = c /\ r.Year = y)

\* lines 105-108
PeerDf(d, i, y) == SelectSeq(d, LAMBDA r : r.Industry = i /\ r.Year = y)

\* frame[rpt_features]
Matrix(rows) == [k \in 1..Len(rows) |-> rows[k].Features]

(***************************************************************************)
(* Floats.  A raw score is an integer; a quotient is num/den or one of the *)
(* IEEE specials; a rounded score is a number of thousandths or a special. *)
(***************************************************************************)
Unset == [kind |-> "unset", val |-> 0]
Num(v) == [kind |-> "num", val |-> v]
NaN == [kind |-> "nan", val |-> 0]
PosInf == [kind |-> "inf", val |-> 0]
NegInf == [kind |-> "-inf", val |-> 0]

IsNum(s) == s.kind = "num"

\* numpy float64 division (line 156): x/0 is nan or +-inf, with a warning only
Divide(n, d) ==
    IF d # 0 THEN [kind |-> "num", num |-> (IF d > 0 THEN n ELSE -n),
                   den |-> (IF d > 0 THEN d ELSE -d)]
    ELSE IF n = 0 THEN [kind |-> "nan", num |-> 0, den |-> 1]
    ELSE IF n > 0 THEN [kind |-> "inf", num |-> 0, den |-> 1]
    ELSE [kind |-> "-inf", num |-> 0, den |-> 1]

\* a/b (b > 0) rounded to the nearest integer, ties to even: what round does
\* on a float that is exactly halfway.  The differences of NativeScores are
\* no multiples of 16, so no quotient of line 156 is halfway here.
RoundHalfEven(a, b) ==
    LET f == (2 * a + b) \div (2 * b)
        tie == (2 * a + b) % (2 * b) = 0
    IN IF tie /\ f % 2 = 1 THEN f - 1 ELSE f

\* the bug-shaped variant of Round3: the digits after the third are cut off
Round3Truncated(q) ==
    IF q.kind # "num" THEN [kind |-> q.kind, val |-> 0]
    ELSE Num((q.num * Scale) \div q.den)

\* round(float(q), 3) (line 157); nan and inf stay what they are
Round3(q) ==
    IF q.kind # "num" THEN [kind |-> q.kind, val |-> 0]
    ELSE Num(RoundHalfEven(q.num * Scale, q.den))

(***************************************************************************)
(* IsolationForest (lines 145-154)                                         *)
(***************************************************************************)
NoModel ==
    [fitted |-> FALSE, X |-> <<>>, n_estimators |-> 0, contamination |-> 0,
     random_state |-> 0]

RECURSIVE SumCodes(_)
SumCodes(X) == IF X = <<>> THEN 0 ELSE Code(Head(X)) + SumCodes(Tail(X))

\* the bug-shaped variant of RandomState: one generator shared by all fits,
\* so that every fit continues where the one before stopped
RandomStateShared == IF model.fitted THEN 42 + ((model.random_state - 41) % 3) ELSE 42

\* random_state=42 (line 148): every fit seeds a generator of its own
RandomState == 42

\* IsolationForest(n_estimators=200, contamination=0.15, random_state=42)
NewModel ==
    [fitted |-> FALSE, X |-> <<>>, n_estimators |-> N_ESTIMATORS,
     contamination |-> CONTAMINATION, random_state |-> RandomState]

\* the bug-shaped variant of Fit: a model fitted by an earlier run is kept
FitCached(X) == IF model.fitted THEN model ELSE [NewModel EXCEPT !.fitted = TRUE, !.X = X]

\* model.fit(X) (line 151) on the model constructed at line 145
Fit(X) == [NewModel EXCEPT !.fitted = TRUE, !.X = X]

\* what a fitted model depends on: its training matrix and its configuration
ForestKey(m) ==
    (SumCodes(m.X) + Len(m.X) + m.random_state + m.n_estimators + m.contamination) % NumFV

\* model.decision_function(X): one native decision value per row
DecisionFunction(m, X) ==
    [k \in 1..Len(X) |-> forest[((Code(X[k]) + ForestKey(m)) % NumFV) + 1]]

\* -model.decision_function(peer_df[rpt_features]) (line 153)
PeerScores(m, pdf) ==
    LET dec == DecisionFunction(m, Matrix(pdf)) IN [k \in 1..Len(pdf) |-> -dec[k]]

\* the bug-shaped variant of CompanyScore: the target is scored by a model
\* fitted on the target alone instead of the model fitted on its cohort
CompanyScoreRefit(m, fdf) == -DecisionFunction(Fit(Matrix(fdf)), Matrix(fdf))[1]

\* -model.decision_function(filtered_df[rpt_features])[0] (line 154)
CompanyScore(m, fdf) == -DecisionFunction(m, Matrix(fdf))[1]

SeqMin(sq) == SetMin({sq[k] : k \in 1..Len(sq)})
SeqMax(sq) == SetMax({sq[k] : k \in 1..Len(sq)})

\* line 156
Normalize(cs, ps) == Divide(cs - SeqMin(ps), SeqMax(ps) - SeqMin(ps))

\* lines 156-157
AiScore(cs, ps) == Round3(Normalize(cs, ps))

(***************************************************************************)
(* The classifier (lines 161-169)                                          *)
(***************************************************************************)
MEDIUM_TENTHS == 7

\* s >= x/10 thousandths, as a float comparison: false for nan
FloatGeq(s, x) ==
    CASE s.kind = "num" -> s.val * 10 >= x
      [] s.kind = "inf" -> TRUE
      [] OTHER -> FALSE

\* the bug-shaped variant of RiskState: > where the code has >=
RiskStateStrict(s, t) ==
    IF IsNum(s) /\ s.val * 10 > t * 10 THEN "high"
    ELSE IF IsNum(s) /\ s.val * 10 > t * MEDIUM_TENTHS THEN "medium"
    ELSE "low"

\* the bug-shaped variant of RiskState: the second comparison reversed
RiskStateReversed(s, t) ==
    IF FloatGeq(s, t * 10) THEN "high"
    ELSE IF ~FloatGeq(s, t * MEDIUM_TENTHS) THEN "medium"
    ELSE "low"

RiskState(s, t) ==
    IF FloatGeq(s, t * 10) THEN "high"
    ELSE IF FloatGeq(s, t * MEDIUM_TENTHS) THEN "medium"
    ELSE "low"

\* st.error / st.warning / st.success(f"AI Risk Score: {ai_score}")
Banner(tier, s) ==
    [kind |-> (CASE tier = "high" -> "error" [] tier = "medium" -> "warning"
                 [] OTHER -> "success"),
     score |-> s]

NoBanner == [kind |-> "none", score |-> Unset]

(***************************************************************************)
(* One execution of the script with the widgets at (i, c, y, t).  The      *)
(* names of a run do not outlive it: a run that stops at line 131 leaves   *)
(* no model, score or tier.  Each name the script assigns is bound once    *)
(* (\E over a singleton) and then used, as in the script.                  *)
(***************************************************************************)
Script(i, c, y, t) ==
    \E fdf \in {FilteredDf(df, i, c, y)} : \E pdf \in {PeerDf(df, i, y)} :
       /\ industry' = i
       /\ company' = c
       /\ year' = y
       /\ risk_threshold' = t
       /\ filtered_df' = fdf
       /\ peer_df' = pdf
       /\ UNCHANGED <<df, forest>>
       /\ IF fdf = <<>>
          THEN \* filtered_df['Revenue'].values[0] (line 131)
               /\ status' = "IndexError"
               /\ model' = NoModel
               /\ peer_scores' = <<>>
               /\ company_score' = Unset
               /\ ai_score' = Unset
               /\ risk_state' = "unset"
               /\ banner' = NoBanner
               /\ previous' = "none"
          ELSE \E m \in {Fit(Matrix(pdf))} :
               \E ps \in {PeerScores(m, pdf)} :
               \E cs \in {CompanyScore(m, fdf)} :
               \E s \in {AiScore(cs, ps)} :
               \E tier \in {RiskState(s, t)} :
                  /\ status' = "ok"
                  /\ model' = m
                  /\ peer_scores' = ps
                  /\ company_score' = Num(cs)
                  /\ ai_score' = s
                  /\ risk_state' = tier
                  /\ banner' = Banner(tier, s)
                  /\ previous' = IF status # "ok" THEN "none"
                                  ELSE IF /\ Matrix(pdf) = Matrix(peer_df)
                                          /\ Matrix(fdf) = Matrix(filtered_df)
                                          /\ t = risk_threshold
                                       THEN "same" ELSE "changed"

Init ==
    /\ df \in Datasets
    /\ forest \in [1..NumFV -> NativeScores]
    /\ industry = 0
    /\ company = 0
    /\ year = 0
    /\ risk_threshold = SLIDER_VALUE
    /\ filtered_df = <<>>
    /\ peer_df = <<>>
    /\ model = NoModel
    /\ peer_scores = <<>>
    /\ company_score = Unset
    /\ ai_score = Unset
    /\ risk_state = "unset"
    /\ banner = NoBanner
    /\ status = "init"
    /\ previous = "none"

\* the session opens: every widget shows its default
FirstRun ==
    /\ status = "init"
    /\ LET i == SetMin(IndustryOptions(df))
       IN Script(i, SetMin(CompanyOptions(df, i)), SetMax(YearOptions(df)), SLIDER_VALUE)

\* a selectbox whose options change starts again at its first option
SelectIndustry(i) ==
    /\ status # "init"
    /\ i \in IndustryOptions(df)
    /\ i # industry
    /\ Script(i,
              IF CompanyOptions(df, i) = CompanyOptions(df, industry)
              THEN company ELSE SetMin(CompanyOptions(df, i)),
              year, risk_threshold)

SelectCompany(c) ==
    /\ status # "init"
    /\ c \in CompanyOptions(df, industry)
    /\ c # company
    /\ Script(industry, c, year, risk_threshold)

SelectYear(y) ==
    /\ status # "init"
    /\ y \in YearOptions(df)
    /\ y # year
    /\ Script(industry, company, y, risk_threshold)

SlideThreshold(t) ==
    /\ status # "init"
    /\ t \in SessionStops
    /\ t # risk_threshold
    /\ Script(industry, company, year, t)

\* the user reruns the script without touching a widget
Rerun ==
    /\ status # "init"
    /\ Script(industry, company, year, risk_threshold)

Next ==
    \/ FirstRun
    \/ \E i \in Industries : SelectIndustry(i)
    \/ \E c \in Companies : SelectCompany(c)
    \/ \E y \in YearsAll : SelectYear(y)
    \/ \E t \in SessionStops : SlideThreshold(t)
    \/ Rerun

Spec == Init /\ [][Next]_vars

(***************************************************************************)
(* The classifier alone, on every score of three decimals (and the IEEE    *)
(* specials) and every slider position; then on higher scores under the    *)
(* same threshold.                                                         *)
(***************************************************************************)
ScoreInputs == {Num(v) : v \in 0..Scale} \cup {NaN, PosInf, NegInf}

Classify(s, t, how) ==
    /\ ai_score' = s
    /\ risk_threshold' = t
    /\ risk_state' = RiskState(s, t)
    /\ banner' = Banner(RiskState(s, t), s)
    /\ status' = how
    /\ UNCHANGED <<df, forest, industry, company, year, filtered_df, peer_df,
                   model, peer_scores, company_score, previous>>

InitClassify ==
    /\ df = <<>>
    /\ forest = [k \in 1..NumFV |-> 0]
    /\ industry = 0
    /\ company = 0
    /\ year = 0
    /\ risk_threshold = SLIDER_VALUE
    /\ filtered_df = <<>>
    /\ peer_df = <<>>
    /\ model = NoModel
    /\ peer_scores = <<>>
    /\ company_score = Unset
    /\ ai_score = Unset
    /\ risk_state = "unset"
    /\ banner = NoBanner
    /\ status = "init"
    /\ previous = "none"

ClassifyFirst ==
    /\ status = "init"
    /\ \E s \in ScoreInputs, t \in SliderStops : Classify(s, t, "classified")

ClassifyHigher(d) ==
    /\ status # "init"
    /\ IsNum(ai_score)
    /\ ai_score.val + d <= Scale
    /\ Classify(Num(ai_score.val + d), risk_threshold, "reclassified")

NextClassify ==
    \/ ClassifyFirst
    \/ \E d \in 1..MaxStep : ClassifyHigher(d)

SpecClassify == InitClassify /\ [][NextClassify]_vars

(***************************************************************************)
(* Properties                                                              *)
(***************************************************************************)
Tiers == {"low", "medium", "high"}
Rank(tier) == CASE tier = "low" -> 1 [] tier = "medium" -> 2 [] tier = "high" -> 3 [] OTHER -> 0

Ran == status = "ok"
PeerMin == SeqMin(peer_scores)
PeerMax == SeqMax(peer_scores)
PeerRange == PeerMax - PeerMin

\* the three bands of the classifier, on a score of v thousandths
InBand(tier, v, t) ==
    /\ (tier = "high") <=> (v >= t)
    /\ (tier = "medium") <=> (10 * v >= 7 * t /\ v < t)
    /\ (tier = "low") <=> (10 * v < 7 * t)

\* C1: every score s and every slider threshold t get exactly one tier:
\* high iff s >= t, medium iff 0.7 t <= s < t, low iff s < 0.7 t
C1_ThreeBands ==
    (status # "init" /\ IsNum(ai_score)) =>
        /\ risk_state \in Tiers
        /\ InBand(risk_state, ai_score.val, risk_threshold)

\* a score exactly on the lower edge of a non-empty medium band
C1_Witness ==
    /\ status = "classified"
    /\ IsNum(ai_score)
    /\ risk_threshold > 0
    /\ 10 * ai_score.val = 7 * risk_threshold
    /\ risk_state = "medium"

\* C2 (as claimed): a run whose peer raw scores all coincide ends with
\* DegenerateCohortError and shows no score and no tier
C2_DegenerateCohortRaises ==
    (status # "init" /\ peer_scores # <<>> /\ PeerRange = 0) =>
        /\ status = "DegenerateCohortError"
        /\ ai_score = Unset
        /\ risk_state = "unset"
        /\ banner = NoBanner

\* C3 (as claimed): a run whose cohort has fewer than 2 rows ends with
\* InsufficientDataError, fits no model and produces no score and no tier
C3_SmallCohortRaises ==
    (status # "init" /\ Len(peer_df) < 2) =>
        /\ status = "InsufficientDataError"
        /\ ~model.fitted
        /\ ai_score = Unset
        /\ risk_state = "unset"

\* C4: when the peer raw scores do not all coincide, the target's raw score
\* lies between their minimum and maximum and the score lies in [0, 1]
C4_ScoreWithinBounds ==
    (Ran /\ PeerRange # 0) =>
        /\ PeerMin <= company_score.val
        /\ company_score.val <= PeerMax
        /\ IsNum(ai_score)
        /\ 0 <= ai_score.val
        /\ ai_score.val <= Scale

\* a target strictly inside its cohort's range of raw scores
C4_Witness ==
    /\ Ran
    /\ PeerMin < company_score.val
    /\ company_score.val < PeerMax
    /\ IsNum(ai_score)
    /\ 0 < ai_score.val
    /\ ai_score.val < Scale

\* C5: under one threshold a higher score never gets a lower tier
C5_TierMonotone ==
    [][(/\ status # "init"
        /\ risk_threshold' = risk_threshold
        /\ IsNum(ai_score)
        /\ IsNum(ai_score')
        /\ ai_score.val <= ai_score'.val)
       => Rank(risk_state) <= Rank(risk_state')]_vars

\* a higher score that has just reached the threshold
C5_Witness ==
    /\ status = "reclassified"
    /\ risk_threshold > 0
    /\ ai_score.val = risk_threshold
    /\ risk_state = "high"

\* the model a run must have fitted: the fixed configuration, fitted on the
\* cohort of the current industry and year
FreshModel ==
    [fitted |-> TRUE, X |-> Matrix(PeerDf(df, industry, year)),
     n_estimators |-> 200, contamination |-> 150, random_state |-> 42]

\* C6: what a run leaves depends on the data set and on the four widget
\* values of that run alone: the model is the one fitted in this run on this
\* run's cohort, and raw score, score and tier are the ones it yields
C6_RunIsIndependent ==
    /\ status = "IndexError" => (~model.fitted /\ ai_score = Unset /\ risk_state = "unset")
    /\ Ran =>
        LET pdf == PeerDf(df, industry, year)
            fdf == FilteredDf(df, industry, company, year)
            ps == [k \in 1..Len(pdf) |-> -DecisionFunction(FreshModel, Matrix(pdf))[k]]
            cs == -DecisionFunction(FreshModel, Matrix(fdf))[1]
        IN /\ model = FreshModel
           /\ peer_df = pdf
           /\ filtered_df = fdf
           /\ peer_scores = ps
           /\ company_score = Num(cs)
           /\ ai_score = Round3(Divide(cs - SeqMin(ps), SeqMax(ps) - SeqMin(ps)))
           /\ risk_state = RiskState(ai_score, risk_threshold)

\* a run that follows a run on another cohort, target or threshold
C6_Witness ==
    /\ Ran
    /\ previous = "changed"
    /\ model.X # <<>>

\* C7: a run on the same cohort, target and threshold as the run before it
\* uses the configuration (200, 0.15, 42) and yields the same raw score,
\* score and tier
C7_Deterministic ==
    [][(/\ status = "ok"
        /\ status' = "ok"
        /\ Matrix(peer_df') = Matrix(peer_df)
        /\ Matrix(filtered_df') = Matrix(filtered_df)
        /\ risk_threshold' = risk_threshold)
       => /\ model'.n_estimators = 200
          /\ model'.contamination = 150
          /\ model'.random_state = 42
          /\ peer_scores' = peer_scores
          /\ company_score' = company_score
          /\ ai_score' = ai_score
          /\ risk_state' = risk_state]_vars

\* a run that repeated its predecessor's cohort, target and threshold
C7_Witness ==
    /\ Ran
    /\ previous = "same"
    /\ PeerRange # 0

\* C8 (as claimed): at threshold 0 every score >= 0 is high and none is
\* medium; at threshold 1 a score is high only when it is 1, that is only
\* when the target's raw score is the cohort maximum; a target at the cohort
\* maximum (non-zero range) scores 1.000 and is high under every threshold
C8_ThresholdExtremesAsClaimed ==
    Ran =>
        /\ risk_threshold = SLIDER_MIN =>
              /\ (IsNum(ai_score) /\ ai_score.val >= 0) => risk_state = "high"
              /\ risk_state # "medium"
        /\ (risk_threshold = SLIDER_MAX /\ risk_state = "high") =>
              /\ ai_score = Num(Scale)
              /\ company_score.val = PeerMax
        /\ (PeerRange # 0 /\ company_score.val = PeerMax) =>
              /\ ai_score = Num(Scale)
              /\ risk_state = "high"

\* C8 (amended): as claimed, except that at threshold 1 a score is high
\* exactly when the rounded score is 1.000, that is when the target's raw
\* score is within 0.0005 of the peer range below the cohort maximum
C8_ThresholdExtremes ==
    Ran =>
        /\ risk_threshold = SLIDER_MIN =>
              /\ (IsNum(ai_score) /\ ai_score.val >= 0) => risk_state = "high"
              /\ risk_state # "medium"
        /\ risk_threshold = SLIDER_MAX =>
              (risk_state = "high" <=>
                  /\ PeerRange # 0
                  /\ ai_score = Num(Scale)
                  /\ 2 * Scale * (PeerMax - company_score.val) <= PeerRange)
        /\ (PeerRange # 0 /\ company_score.val = PeerMax) =>
              /\ ai_score = Num(Scale)
              /\ risk_state = "high"

\* threshold 1, tier high, and the target is not the cohort maximum
C8_Witness ==
    /\ Ran
    /\ risk_threshold = SLIDER_MAX
    /\ risk_state = "high"
    /\ company_score.val < PeerMax

\* C9: the score is the quotient of line 156 rounded to the nearest
\* thousandth, the banner shows that very value, and the tier follows from
\* that value and the threshold alone
C9_TierFromRoundedScore ==
    (Ran /\ PeerRange # 0) =>
        /\ IsNum(ai_score)
        /\ LET diff == ai_score.val * PeerRange - Scale * (company_score.val - PeerMin)
           IN 2 * diff <= PeerRange /\ -2 * diff <= PeerRange
        /\ banner.score = ai_score
        /\ banner.kind = (CASE risk_state = "high" -> "error"
                            [] risk_state = "medium" -> "warning"
                            [] OTHER -> "success")
        /\ InBand(risk_state, ai_score.val, risk_threshold)

\* a quotient that is not a whole number of thousandths and whose rounded
\* value sits exactly on the threshold
C9_Witness ==
    /\ Ran
    /\ PeerRange # 0
    /\ ai_score.val * PeerRange # Scale * (company_score.val - PeerMin)
    /\ ai_score.val = risk_threshold
    /\ risk_state = "high"

\* C10 (as claimed): whatever the selectors offer, filtered_df is not empty
\* and lies within peer_df, and the run produces a score and a tier
C10_SelectionAlwaysScored ==
    status # "init" =>
        /\ filtered_df # <<>>
        /\ \A k \in 1..Len(filtered_df) : \E j \in 1..Len(peer_df) : peer_df[j] = filtered_df[k]
        /\ status = "ok"
        /\ ai_score # Unset
        /\ risk_state \in Tiers

====
